---- MODULE Spec2Model ----
(***************************************************************************)
(* Intercepting gRPC proxy of the CasperLabs integration tests             *)
(* (integration-testing/casperlabs_local_net/grpc_proxy.py).               *)
(*                                                                         *)
(* One Proxy Runtime is modelled: a ProxyServicer bound to one Interceptor *)
(* and served by a pool of one worker.  A forwarded call is followed       *)
(* through unary_unary / unary_stream statement by statement; a generator  *)
(* advances one segment (from a resumption to its next yield) per step.    *)
(* Byte strings are sequences of naturals.  Python 3.7+ generator          *)
(* semantics (PEP 479) are assumed: a StopIteration escaping a generator   *)
(* body surfaces as RuntimeError.                                          *)
(***************************************************************************)
EXTENDS Integers, Sequences, FiniteSets, TLC

\* ------------------------------------------------------------------ bounds
\* longest upstream response stream
MaxStream == 3
\* most deploys in a block body
MaxDeploys == 2
\* most approvals on one deploy
MaxApprovals == 2
\* range of the digest
HashMod == 97
\* most direct client views the harness takes from one ProxyThread
MaxViews == 3
\* most calls the harness issues on one direct client view
MaxDirectCalls == 2
\* most words in a method name handed to __getattr__
MaxWords == 3
\* most calls clients make to one Runtime
MaxCalls == 2
\* most calls a listener accepts
MaxAccepted == 2

\* ------------------------------------------------------------ method names
\* Method names are character sequences, so that startswith / endswith are
\* computed as Python computes them.
Ping == <<"P","i","n","g">>
Lookup == <<"L","o","o","k","u","p">>
NewBlocks == <<"N","e","w","B","l","o","c","k","s">>
GetBlockChunked == <<"G","e","t","B","l","o","c","k","C","h","u","n","k","e","d">>
StreamBlockSummaries ==
    <<"S","t","r","e","a","m","B","l","o","c","k","S","u","m","m","a","r","i","e","s">>

MethodNames == {Ping, Lookup, NewBlocks, GetBlockChunked, StreamBlockSummaries}

startswith(s, p) == Len(s) >= Len(p) /\ SubSeq(s, 1, Len(p)) = p
endswith(s, p) == Len(s) >= Len(p) /\ SubSeq(s, Len(s) - Len(p) + 1, Len(s)) = p

is_unary_stream(method_name) ==
    \/ startswith(method_name, <<"S","t","r","e","a","m">>)
    \/ endswith(method_name, <<"C","h","u","n","k","e","d">>)

\* Mutant: the two words count wherever they stand in the name.
getattr_anywhere(name) ==
    IF \E i \in 1..Len(name) :
          \/ startswith(SubSeq(name, i, Len(name)), <<"S","t","r","e","a","m">>)
          \/ startswith(SubSeq(name, i, Len(name)), <<"C","h","u","n","k","e","d">>)
    THEN "unary_stream" ELSE "unary_unary"

\* __getattr__(name): return unary_stream if self.is_unary_stream(name)
\* else unary_unary
getattr(name) == IF is_unary_stream(name) THEN "unary_stream" ELSE "unary_unary"

\* ----------------------------------------------------------- node registry
\* cl_network.lookup_node: identity -> the node's proxy-facing coordinates.
Registry ==
    [id \in {"4c19", "a0b1"} |->
        IF id = "4c19"
        THEN [proxy_host |-> "proxy-1", server_proxy_port |-> 40400,
              kademlia_proxy_port |-> 40404]
        ELSE [proxy_host |-> "proxy-2", server_proxy_port |-> 40410,
              kademlia_proxy_port |-> 40414]]

\* An identity the registry does not know.
UnknownId == "ffff"

NodeIds == DOMAIN Registry \cup {UnknownId}

lookup_node(id) ==
    IF id \in DOMAIN Registry
    THEN [ok |-> TRUE, node |-> Registry[id]]
    ELSE [ok |-> FALSE, node |-> [proxy_host |-> "", server_proxy_port |-> 0,
                                  kademlia_proxy_port |-> 0]]

\* A node's self-reported (real) address, as peers announce it.
RealNode(id) ==
    [id |-> id,
     host |-> IF id = "4c19" THEN "node-1" ELSE IF id = "a0b1" THEN "node-2" ELSE "node-x",
     protocol_port |-> 50400,
     discovery_port |-> 50404]

\* Requests carry a sender and one further field (block_hashes, id, ...).
Requests == {[sender |-> RealNode(id), rest |-> 7] : id \in NodeIds}

\* --------------------------------------------------------- bytes and crypto
\* Byte strings are finite sequences of naturals.  The helpers that walk a
\* byte string are recursive functions of it.
HashFrom[h \in Nat, bytes \in Seq(Nat)] ==
    IF bytes = <<>> THEN h
    ELSE HashFrom[(h * 31 + Head(bytes) + 1) % HashMod, Tail(bytes)]

\* blake2b_hash: a digest of a byte string.
blake2b_hash(bytes) == HashFrom[0, bytes]

\* ed25519 SigningKey(key).sign(msg): deterministic, and determined by
\* (key, msg) only.
Sign(key, msg) == key * HashMod + msg

\* self.node.config.node_private_key (after base64 decoding)
node_private_key == 5

AlgCode(alg) == IF alg = "ed25519" THEN 1 ELSE IF alg = "" THEN 0 ELSE 2
AlgName(code) == IF code = 1 THEN "ed25519" ELSE IF code = 0 THEN "" ELSE "secp256k1"

\* ------------------------------------------------- protobuf (de)serializers
\* ProcessedDeploy messages, as far as the proxy looks into them.
ProcessedDeployType == [deploy : [deploy_hash : Nat, approvals : Seq(Nat)]]

\* Deploy inside a ProcessedDeploy: <<deploy_hash, #approvals, approvals...>>
SerializeDeploy(pd) ==
    <<pd.deploy.deploy_hash, Len(pd.deploy.approvals)>> \o pd.deploy.approvals

SerializeDeploys[ds \in Seq(ProcessedDeployType)] ==
    IF ds = <<>> THEN <<>> ELSE SerializeDeploy(Head(ds)) \o SerializeDeploys[Tail(ds)]

\* block.body.SerializeToString()
SerializeBody(body) == <<Len(body.deploys)>> \o SerializeDeploys[body.deploys]

\* block.header.SerializeToString()
SerializeHeader(header) == <<header.body_hash, header.rank>>

\* block.SerializeToString(): block_hash, header, body, signature
SerializeBlock(block) ==
    <<block.block_hash>> \o SerializeHeader(block.header) \o SerializeBody(block.body)
        \o <<AlgCode(block.signature.sig_algorithm), block.signature.sig>>

\* Parses n deploys off the front of bytes: [ok, deploys, rest].
ParseDeploys[bytes \in Seq(Nat), n \in Nat] ==
    IF n = 0 THEN [ok |-> TRUE, deploys |-> <<>>, rest |-> bytes]
    ELSE IF Len(bytes) < 2 \/ Len(bytes) < 2 + bytes[2]
    THEN [ok |-> FALSE, deploys |-> <<>>, rest |-> <<>>]
    ELSE LET k == bytes[2]
             pd == [deploy |-> [deploy_hash |-> bytes[1],
                                approvals |-> SubSeq(bytes, 3, 2 + k)]]
             more == ParseDeploys[SubSeq(bytes, 3 + k, Len(bytes)), n - 1]
         IN  [ok |-> more.ok,
              deploys |-> IF more.ok THEN <<pd>> \o more.deploys ELSE <<>>,
              rest |-> more.rest]

EmptyBlock ==
    [block_hash |-> 0, header |-> [body_hash |-> 0, rank |-> 0],
     body |-> [deploys |-> <<>>], signature |-> [sig_algorithm |-> "", sig |-> 0]]

\* block.ParseFromString(data): [ok, block]; not ok is a DecodeError.
ParseFromString(bytes) ==
    IF Len(bytes) < 6
    THEN [ok |-> FALSE, block |-> EmptyBlock]
    ELSE LET ds == ParseDeploys[SubSeq(bytes, 5, Len(bytes)), bytes[4]]
         IN  IF ds.ok /\ Len(ds.rest) = 2
             THEN [ok |-> TRUE,
                   block |-> [block_hash |-> bytes[1],
                              header |-> [body_hash |-> bytes[2], rank |-> bytes[3]],
                              body |-> [deploys |-> ds.deploys],
                              signature |-> [sig_algorithm |-> AlgName(ds.rest[1]),
                                             sig |-> ds.rest[2]]]]
             ELSE [ok |-> FALSE, block |-> EmptyBlock]

\* ------------------------------------------------------------ lz4.block
\* A lossless block compressor with the interface of lz4.block: the
\* compressed block stores no size (store_size=False), and decompression
\* fails on a malformed block or when the output exceeds uncompressed_size.
\* Runs of equal bytes are stored as <<run length, byte>>.
RunLength[bytes \in Seq(Nat)] ==
    IF Len(bytes) >= 2 /\ bytes[1] = bytes[2] THEN 1 + RunLength[Tail(bytes)] ELSE 1

Compress[bytes \in Seq(Nat)] ==
    IF bytes = <<>> THEN <<>>
    ELSE <<RunLength[bytes], bytes[1]>>
            \o Compress[SubSeq(bytes, RunLength[bytes] + 1, Len(bytes))]

\* lz4.block.compress(data, store_size=False)
lz4_compress(bytes) == Compress[bytes]

Expand[data \in Seq(Nat)] ==
    IF Len(data) < 2 THEN <<>>
    ELSE [i \in 1..data[1] |-> data[2]] \o Expand[SubSeq(data, 3, Len(data))]

WellFormed[data \in Seq(Nat)] ==
    \/ data = <<>>
    \/ /\ Len(data) >= 2
       /\ data[1] >= 1
       /\ WellFormed[SubSeq(data, 3, Len(data))]

\* lz4.block.decompress(data, uncompressed_size=n): [ok, bytes]; not ok is
\* an LZ4BlockError.
lz4_decompress(data, uncompressed_size) ==
    IF data # <<>> /\ WellFormed[data] /\ Len(Expand[data]) <= uncompressed_size
    THEN [ok |-> TRUE, bytes |-> Expand[data]]
    ELSE [ok |-> FALSE, bytes |-> <<>>]

\* -------------------------------------------------------------- messages
\* A Chunk of the chunked block transfer: a header chunk carries the two
\* lengths, a data chunk carries the compressed payload; the part a chunk
\* does not carry reads as its protobuf default.
HeaderChunk(original_content_length, content_length) ==
    [header |-> [original_content_length |-> original_content_length,
                 content_length |-> content_length],
     data |-> <<>>]

DataChunk(data) ==
    [header |-> [original_content_length |-> 0, content_length |-> 0], data |-> data]

\* Hook events, in call order.
Event(hook, name, request, response) ==
    [hook |-> hook, name |-> name, request |-> request, response |-> response]

\* ---------------------------------------------- Interceptor (base class)
Interceptor_pre_request(name, request) == [ok |-> TRUE, request |-> request]

Interceptor_post_request(name, request, response) == response

\* next(response) on the upstream response iterator after `pulled` elements
UpstreamNext(upstream, pulled) ==
    IF pulled < Len(upstream.elems)
    THEN [kind |-> "elem", elem |-> upstream.elems[pulled + 1]]
    ELSE IF upstream.fails
    THEN [kind |-> "RpcError"]
    ELSE [kind |-> "StopIteration"]

\* Outcomes of one generator segment.
Yield(value, pulled) ==
    [kind |-> "yield", value |-> value, pulled |-> pulled, failure |-> ""]
Return(pulled) == [kind |-> "return", pulled |-> pulled, failure |-> ""]
Raise(failure, pulled) == [kind |-> "raise", pulled |-> pulled, failure |-> failure]

\* `yield from response`
Interceptor_post_request_stream(name, request, upstream, pulled) ==
    LET n == UpstreamNext(upstream, pulled)
    IN  IF n.kind = "elem" THEN Yield(n.elem, pulled + 1)
        ELSE IF n.kind = "StopIteration" THEN Return(pulled)
        ELSE Raise("RpcError", pulled)

\* ------------------------------------------------------ LoggingInterceptor
LoggingInterceptor_pre_request(name, request) == [ok |-> TRUE, request |-> request]

LoggingInterceptor_post_request(name, request, response) == response

\* Mutant: logging the response consumes its first element.
LoggingInterceptor_post_request_stream_skip(name, request, upstream, pulled) ==
    LET at == IF pulled = 0 THEN 1 ELSE pulled
        n == UpstreamNext(upstream, at)
    IN  IF n.kind = "elem" THEN Yield(n.elem, at + 1)
        ELSE IF n.kind = "StopIteration" THEN Return(pulled)
        ELSE Raise("RpcError", pulled)

LoggingInterceptor_post_request_stream(name, request, upstream, pulled) ==
    LET n == UpstreamNext(upstream, pulled)
    IN  IF n.kind = "elem" THEN Yield(n.elem, pulled + 1)
        ELSE IF n.kind = "StopIteration" THEN Return(pulled)
        ELSE Raise("RpcError", pulled)

\* ----------------------------------------------------- KademliaInterceptor
\* Mutant: the two proxy ports are assigned the wrong way round.
KademliaInterceptor_pre_request_swapped(name, request) ==
    LET node == lookup_node(request.sender.id)
    IN  IF ~node.ok THEN [ok |-> FALSE, request |-> request]
        ELSE [ok |-> TRUE,
              request |-> [request EXCEPT
                  !.sender.host = node.node.proxy_host,
                  !.sender.protocol_port = node.node.kademlia_proxy_port,
                  !.sender.discovery_port = node.node.server_proxy_port]]

KademliaInterceptor_pre_request(name, request) ==
    LET node == lookup_node(request.sender.id)
    IN  IF ~node.ok THEN [ok |-> FALSE, request |-> request]
        ELSE [ok |-> TRUE,
              request |-> [request EXCEPT
                  !.sender.host = node.node.proxy_host,
                  !.sender.protocol_port = node.node.server_proxy_port,
                  !.sender.discovery_port = node.node.kademlia_proxy_port]]

KademliaInterceptor_post_request(name, request, response) == response

\* Mutant: a streamed peer the registry does not know is passed on unpatched.
KademliaInterceptor_post_request_stream_tolerant(name, request, upstream, pulled) ==
    LET n == UpstreamNext(upstream, pulled)
    IN  IF n.kind = "elem"
        THEN LET r == n.elem
                 node == lookup_node(r.id)
             IN  IF ~node.ok THEN Yield(r, pulled + 1)
                 ELSE Yield([r EXCEPT
                                !.host = node.node.proxy_host,
                                !.protocol_port = node.node.server_proxy_port,
                                !.discovery_port = node.node.kademlia_proxy_port],
                            pulled + 1)
        ELSE IF n.kind = "StopIteration" THEN Return(pulled)
        ELSE Raise("RpcError", pulled)

\* Mutant: a streamed peer gets the two proxy ports the wrong way round.
KademliaInterceptor_post_request_stream_swapped(name, request, upstream, pulled) ==
    LET n == UpstreamNext(upstream, pulled)
    IN  IF n.kind = "elem"
        THEN LET r == n.elem
                 node == lookup_node(r.id)
             IN  IF ~node.ok THEN Raise("KeyError", pulled + 1)
                 ELSE Yield([r EXCEPT
                                !.host = node.node.proxy_host,
                                !.protocol_port = node.node.kademlia_proxy_port,
                                !.discovery_port = node.node.server_proxy_port],
                            pulled + 1)
        ELSE IF n.kind = "StopIteration" THEN Return(pulled)
        ELSE Raise("RpcError", pulled)

\* for r in response: patch r, yield r
KademliaInterceptor_post_request_stream(name, request, upstream, pulled) ==
    LET n == UpstreamNext(upstream, pulled)
    IN  IF n.kind = "elem"
        THEN LET r == n.elem
                 node == lookup_node(r.id)
             IN  IF ~node.ok THEN Raise("KeyError", pulled + 1)
                 ELSE Yield([r EXCEPT
                                !.host = node.node.proxy_host,
                                !.protocol_port = node.node.server_proxy_port,
                                !.discovery_port = node.node.kademlia_proxy_port],
                            pulled + 1)
        ELSE IF n.kind = "StopIteration" THEN Return(pulled)
        ELSE Raise("RpcError", pulled)

\* ------------------------------------------------------- GossipInterceptor
\* Mutant: a sender the registry does not know is let through unpatched.
GossipInterceptor_pre_request_lenient(name, request) ==
    IF name = NewBlocks /\ lookup_node(request.sender.id).ok
    THEN LET sender == lookup_node(request.sender.id)
         IN  [ok |-> TRUE,
              request |-> [request EXCEPT
                  !.sender.host = sender.node.proxy_host,
                  !.sender.protocol_port = sender.node.server_proxy_port,
                  !.sender.discovery_port = sender.node.kademlia_proxy_port]]
    ELSE [ok |-> TRUE, request |-> request]

\* Mutant: the sender is looked up and patched whatever the operation name.
GossipInterceptor_pre_request_every_name(name, request) ==
    LET sender == lookup_node(request.sender.id)
    IN  IF ~sender.ok THEN [ok |-> FALSE, request |-> request]
        ELSE [ok |-> TRUE,
              request |-> [request EXCEPT
                  !.sender.host = sender.node.proxy_host,
                  !.sender.protocol_port = sender.node.server_proxy_port,
                  !.sender.discovery_port = sender.node.kademlia_proxy_port]]

GossipInterceptor_pre_request(name, request) ==
    IF name = NewBlocks
    THEN LET sender == lookup_node(request.sender.id)
         IN  IF ~sender.ok THEN [ok |-> FALSE, request |-> request]
             ELSE [ok |-> TRUE,
                   request |-> [request EXCEPT
                       !.sender.host = sender.node.proxy_host,
                       !.sender.protocol_port = sender.node.server_proxy_port,
                       !.sender.discovery_port = sender.node.kademlia_proxy_port]]
    ELSE [ok |-> TRUE, request |-> request]

GossipInterceptor_post_request(name, request, response) == response

\* Mutant: the approvals of every deploy are removed.
RemoveApprovals_all(block) ==
    [block EXCEPT !.body.deploys =
        [i \in 1..Len(block.body.deploys) |->
            [block.body.deploys[i] EXCEPT !.deploy.approvals = <<>>]]]

\* del block.body.deploys[0].deploy.approvals[:]   (deploys is not empty)
RemoveApprovals(block) ==
    [block EXCEPT !.body.deploys[1].deploy.approvals = <<>>]

\* Mutant: block_hash is taken over the header before body_hash is renewed.
Resign_stale_header(block) ==
    LET header == [block.header EXCEPT
                      !.body_hash = blake2b_hash(SerializeBody(block.body))]
        block_hash == blake2b_hash(SerializeHeader(block.header))
    IN  [block EXCEPT
            !.header = header,
            !.block_hash = block_hash,
            !.signature = [sig_algorithm |-> "ed25519",
                           sig |-> Sign(node_private_key, block_hash)]]

\* body_hash, then block_hash over the header carrying it, then the signature
Resign(block) ==
    LET header == [block.header EXCEPT
                      !.body_hash = blake2b_hash(SerializeBody(block.body))]
        block_hash == blake2b_hash(SerializeHeader(header))
    IN  [block EXCEPT
            !.header = header,
            !.block_hash = block_hash,
            !.signature = [sig_algorithm |-> "ed25519",
                           sig |-> Sign(node_private_key, block_hash)]]

\* Mutant: the payload is replaced but the header keeps the upstream lengths.
Rechunk_stale_lengths(chunk1, chunk2, block) ==
    LET new_data == SerializeBlock(block)
        compressed_new_data == lz4_compress(new_data)
    IN  <<chunk1, [chunk2 EXCEPT !.data = compressed_new_data]>>

\* new_data, compressed_new_data and the two chunks rewritten with them
Rechunk(chunk1, chunk2, block) ==
    LET new_data == SerializeBlock(block)
        compressed_new_data == lz4_compress(new_data)
    IN  <<[chunk1 EXCEPT !.header.original_content_length = Len(new_data),
                         !.header.content_length = Len(compressed_new_data)],
          [chunk2 EXCEPT !.data = compressed_new_data]>>

\* Mutant: each resumption reads one element ahead of the one it yields.
GossipInterceptor_post_request_stream_readahead(name, request, upstream, pulled) ==
    LET n == UpstreamNext(upstream, pulled)
    IN  IF n.kind = "elem"
        THEN Yield(n.elem, IF pulled + 2 <= Len(upstream.elems) THEN pulled + 2
                           ELSE pulled + 1)
        ELSE IF n.kind = "StopIteration" THEN Return(pulled)
        ELSE Raise("RpcError", pulled)

\* The branch for every other name: `for r in response: yield r`.  (The
\* GetBlockChunked branch is followed statement by statement, below.)
GossipInterceptor_post_request_stream(name, request, upstream, pulled) ==
    LET n == UpstreamNext(upstream, pulled)
    IN  IF n.kind = "elem" THEN Yield(n.elem, pulled + 1)
        ELSE IF n.kind = "StopIteration" THEN Return(pulled)
        ELSE Raise("RpcError", pulled)

\* ------------------------------------------ self.interceptor.<hook>(...)
Interceptors ==
    {"interceptor", "logging_interceptor", "kademlia_interceptor", "gossip_interceptor"}

pre_request(i, name, request) ==
    CASE i = "logging_interceptor" -> LoggingInterceptor_pre_request(name, request)
      [] i = "kademlia_interceptor" -> KademliaInterceptor_pre_request(name, request)
      [] i = "gossip_interceptor" -> GossipInterceptor_pre_request(name, request)
      [] OTHER -> Interceptor_pre_request(name, request)

post_request(i, name, request, response) ==
    CASE i = "logging_interceptor" -> LoggingInterceptor_post_request(name, request, response)
      [] i = "kademlia_interceptor" -> KademliaInterceptor_post_request(name, request, response)
      [] i = "gossip_interceptor" -> GossipInterceptor_post_request(name, request, response)
      [] OTHER -> Interceptor_post_request(name, request, response)

post_request_stream(i, name, request, upstream, pulled) ==
    CASE i = "logging_interceptor" ->
            LoggingInterceptor_post_request_stream(name, request, upstream, pulled)
      [] i = "kademlia_interceptor" ->
            KademliaInterceptor_post_request_stream(name, request, upstream, pulled)
      [] i = "gossip_interceptor" ->
            GossipInterceptor_post_request_stream(name, request, upstream, pulled)
      [] OTHER -> Interceptor_post_request_stream(name, request, upstream, pulled)

\* ------------------------------------------------------ upstream behaviour
\* Blocks as the upstream node serves them: digests and signature valid.
ApprovalLists == {[i \in 1..k |-> 11] : k \in 0..MaxApprovals}

ProcessedDeploys ==
    {[deploy |-> [deploy_hash |-> 20 + Len(a), approvals |-> a]] : a \in ApprovalLists}

DeployLists == UNION {[1..n -> ProcessedDeploys] : n \in 0..MaxDeploys}

UpstreamBlock(deploys) ==
    LET body == [deploys |-> deploys]
        header == [body_hash |-> blake2b_hash(SerializeBody(body)), rank |-> 1]
        block_hash == blake2b_hash(SerializeHeader(header))
    IN  [block_hash |-> block_hash, header |-> header, body |-> body,
         signature |-> [sig_algorithm |-> "ed25519", sig |-> Sign(3, block_hash)]]

UpstreamBlocks == {UpstreamBlock(ds) : ds \in DeployLists}

\* The responses to GetBlockChunked: the two chunks of a block followed by
\* further chunks, as served ("good") or damaged in one of three ways.
ChunkVariants == {"good", "short_length", "bad_lz4", "bad_block"}

ChunkStream(block, variant) ==
    LET new_data == SerializeBlock(block)
        compressed == lz4_compress(new_data)
        header == CASE variant = "short_length" ->
                          HeaderChunk(Len(new_data) - 1, Len(compressed))
                    [] variant = "bad_block" -> HeaderChunk(3, 2)
                    [] OTHER -> HeaderChunk(Len(new_data), Len(compressed))
        data == CASE variant = "bad_lz4" -> DataChunk(compressed \o <<0>>)
                  [] variant = "bad_block" -> DataChunk(<<3, 9>>)
                  [] OTHER -> DataChunk(compressed)
    IN  <<header, data>> \o [i \in 1..(MaxStream - 2) |-> DataChunk(<<1, 1>>)]

ChunkStreams ==
    {SubSeq(ChunkStream(b, v), 1, n) :
        b \in UpstreamBlocks, v \in ChunkVariants, n \in 0..MaxStream}

\* The peers a discovery lookup streams back.
NodeStreams == UNION {[1..n -> {RealNode(id) : id \in NodeIds}] : n \in 0..MaxStream}

\* What the upstream node does with the call: a unary call fails or answers
\* resp; a streaming call yields elems and then ends or fails.
Responses == {1, 2}

UnaryUpstreams ==
    {[fails |-> TRUE, resp |-> 0, elems |-> <<>>]}
        \cup {[fails |-> FALSE, resp |-> r, elems |-> <<>>] : r \in Responses}

StreamUpstreams(i) ==
    {[fails |-> f, resp |-> 0, elems |-> e] :
        f \in BOOLEAN,
        e \in IF i = "kademlia_interceptor" THEN NodeStreams ELSE ChunkStreams}

Upstreams(i, method_name) ==
    IF is_unary_stream(method_name) THEN StreamUpstreams(i) ELSE UnaryUpstreams

\* ------------------------------------------------------------------- state
VARIABLES
    interceptor,            \* the Interceptor bound to the servicer
    pc,                     \* position of the call being handled
    name,                   \* its method name
    request,                \* the request as received
    upstream,               \* what the upstream node will answer
    channel,                \* the call's upstream channel: none, open, closed
    preprocessed_request,   \* local of unary_unary / unary_stream
    response,               \* local of unary_unary
    result,                 \* what unary_unary returned to the caller
    pulled,                 \* elements taken from response_stream
    chunks,                 \* locals chunk1, chunk2 of the GetBlockChunked branch
    block,                  \* local block of the GetBlockChunked branch
    delivered,              \* elements yielded to the caller
    log,                    \* hook and upstream invocations, in order
    failure,                \* the exception that ended the call
    views,                  \* direct client views handed to the harness
    handler,                \* the handler __getattr__ returned for name
    queue,                  \* per Runtime: calls submitted to its pool, waiting
    stage,                  \* per Runtime and call: how far its handling has got
    trace,                  \* per Runtime: hook invocations, in order
    config,                 \* arguments the Runtime was built with
    harness,                \* position of the harness thread
    thread,                 \* position of ProxyThread.run in its own thread
    server,                 \* self.server: unset, created, started, stopped
    listener,               \* the server's port: none, bound
    accepted                \* calls the listener has accepted

vars ==
    <<interceptor, pc, name, request, upstream, channel, preprocessed_request,
      response, result, pulled, chunks, block, delivered, log, failure, views,
      handler, queue, stage, trace, config, harness, thread, server, listener,
      accepted>>

poolVars == <<queue, stage, trace>>

lifecycleVars == <<config, harness, thread, server, listener, accepted>>

\* The Runtimes of one node: proxy_server and proxy_kademlia each build one.
Runtimes == {"proxy_server", "proxy_kademlia"}

\* The calls clients make to one Runtime.
CallIds == 1..MaxCalls

NoConfig == [encrypted |-> FALSE, client_files |-> FALSE, server_files |-> FALSE]

NoRequest ==
    [sender |-> [id |-> "", host |-> "", protocol_port |-> 0, discovery_port |-> 0],
     rest |-> 0]

NoUpstream == [fails |-> FALSE, resp |-> 0, elems |-> <<>>]

Ended == {"returned", "failed", "cancelled"}

Init ==
    /\ interceptor \in Interceptors
    /\ pc = "idle"
    /\ name = <<>>
    /\ request = NoRequest
    /\ upstream = NoUpstream
    /\ channel = "none"
    /\ preprocessed_request = NoRequest
    /\ response = 0
    /\ result = 0
    /\ pulled = 0
    /\ chunks = <<>>
    /\ block = EmptyBlock
    /\ delivered = <<>>
    /\ log = <<>>
    /\ failure = ""
    /\ views = <<>>
    /\ handler = "none"
    /\ queue = [rt \in Runtimes |-> <<>>]
    /\ stage = [rt \in Runtimes |-> [c \in CallIds |-> "new"]]
    /\ trace = [rt \in Runtimes |-> <<>>]
    /\ config = NoConfig
    /\ harness = "idle"
    /\ thread = "unstarted"
    /\ server = "unset"
    /\ listener = "none"
    /\ accepted = 0

\* ---------------------------------------------------- ProxyServicer calls
\* The worker takes a call: __getattr__(name) picked the handler, and the
\* handler (for unary_stream: the generator's first resumption) begins.
Receive ==
    /\ pc = "idle"
    /\ \E n \in MethodNames, req \in Requests :
        \E up \in Upstreams(interceptor, n) :
            /\ name' = n
            /\ handler' = getattr(n)
            /\ request' = req
            /\ upstream' = up
    /\ pc' = "received"
    /\ channel' = "none"
    /\ preprocessed_request' = NoRequest
    /\ response' = 0
    /\ result' = 0
    /\ pulled' = 0
    /\ chunks' = <<>>
    /\ block' = EmptyBlock
    /\ delivered' = <<>>
    /\ log' = <<>>
    /\ failure' = ""
    /\ UNCHANGED <<interceptor, views>>
    /\ UNCHANGED <<poolVars, lifecycleVars>>

\* with self.channel() as channel:
OpenChannel ==
    /\ pc = "received"
    /\ channel' = "open"
    /\ pc' = "opened"
    /\ UNCHANGED <<interceptor, name, request, upstream, preprocessed_request, response,
                   result, pulled, chunks, block, delivered, log, failure, views, handler>>
    /\ UNCHANGED <<poolVars, lifecycleVars>>

\* preprocessed_request = self.interceptor.pre_request(name, request)
PreRequest ==
    /\ pc = "opened"
    /\ LET r == pre_request(interceptor, name, request)
       IN  /\ log' = Append(log, Event("pre_request", name, request, 0))
           /\ IF r.ok
              THEN /\ preprocessed_request' = r.request
                   /\ pc' = "pre_done"
                   /\ UNCHANGED <<channel, failure>>
              ELSE /\ pc' = "failed"
                   /\ failure' = "KeyError"
                   /\ channel' = "closed"
                   /\ UNCHANGED preprocessed_request
    /\ UNCHANGED <<interceptor, name, request, upstream, response, result, pulled,
                   chunks, block, delivered, views, handler>>
    /\ UNCHANGED <<poolVars, lifecycleVars>>

\* Mutant: a failed unary invocation is attempted a second time.
Invoke_retry ==
    /\ pc = "pre_done"
    /\ log' = Append(log, Event("upstream", name, preprocessed_request, 0))
    /\ IF handler = "unary_stream"
       THEN /\ pc' = "streaming"
            /\ UNCHANGED <<response, channel, failure>>
       ELSE IF upstream.fails /\ log[Len(log)].hook = "pre_request"
       THEN UNCHANGED <<pc, response, channel, failure>>
       ELSE IF upstream.fails
       THEN /\ pc' = "failed"
            /\ failure' = "RpcError"
            /\ channel' = "closed"
            /\ UNCHANGED response
       ELSE /\ response' = upstream.resp
            /\ pc' = "invoked"
            /\ UNCHANGED <<channel, failure>>
    /\ UNCHANGED <<interceptor, name, request, upstream, preprocessed_request, result,
                   pulled, chunks, block, delivered, views, handler>>
    /\ UNCHANGED <<poolVars, lifecycleVars>>

\* getattr(self.service_stub(channel), name)(preprocessed_request)
Invoke ==
    /\ pc = "pre_done"
    /\ log' = Append(log, Event("upstream", name, preprocessed_request, 0))
    /\ IF handler = "unary_stream"
       THEN /\ pc' = "streaming"
            /\ UNCHANGED <<response, channel, failure>>
       ELSE IF upstream.fails
       THEN /\ pc' = "failed"
            /\ failure' = "RpcError"
            /\ channel' = "closed"
            /\ UNCHANGED response
       ELSE /\ response' = upstream.resp
            /\ pc' = "invoked"
            /\ UNCHANGED <<channel, failure>>
    /\ UNCHANGED <<interceptor, name, request, upstream, preprocessed_request, result,
                   pulled, chunks, block, delivered, views, handler>>
    /\ UNCHANGED <<poolVars, lifecycleVars>>

\* Mutant: post_request is handed the request as received.
PostRequest_original_request ==
    /\ pc = "invoked"
    /\ log' = Append(log, Event("post_request", name, request, response))
    /\ result' = post_request(interceptor, name, request, response)
    /\ pc' = "returned"
    /\ channel' = "closed"
    /\ UNCHANGED <<interceptor, name, request, upstream, preprocessed_request, response,
                   pulled, chunks, block, delivered, failure, views, handler>>
    /\ UNCHANGED <<poolVars, lifecycleVars>>

\* return self.interceptor.post_request(name, preprocessed_request, response)
PostRequest ==
    /\ pc = "invoked"
    /\ log' = Append(log, Event("post_request", name, preprocessed_request, response))
    /\ result' = post_request(interceptor, name, preprocessed_request, response)
    /\ pc' = "returned"
    /\ channel' = "closed"
    /\ UNCHANGED <<interceptor, name, request, upstream, preprocessed_request, response,
                   pulled, chunks, block, delivered, failure, views, handler>>
    /\ UNCHANGED <<poolVars, lifecycleVars>>

\* The call runs the GetBlockChunked branch of GossipInterceptor.
IsBlockFetch == interceptor = "gossip_interceptor" /\ name = GetBlockChunked

\* yield from self.interceptor.post_request_stream(...): one segment of the
\* interceptor's generator, up to its next yield, its return or its failure.
StreamStep ==
    /\ pc \in {"streaming", "yielded"}
    /\ ~IsBlockFetch
    /\ LET o == post_request_stream(interceptor, name, preprocessed_request, upstream,
                                    pulled)
       IN  /\ pulled' = o.pulled
           /\ failure' = o.failure
           /\ delivered' = IF o.kind = "yield" THEN Append(delivered, o.value) ELSE delivered
           /\ pc' = CASE o.kind = "yield" -> "yielded"
                      [] o.kind = "return" -> "returned"
                      [] OTHER -> "failed"
           /\ channel' = IF o.kind = "yield" THEN channel ELSE "closed"
    /\ log' = IF pc = "streaming"
              THEN Append(log, Event("post_request_stream", name, preprocessed_request, 0))
              ELSE log
    /\ UNCHANGED <<interceptor, name, request, upstream, preprocessed_request, response,
                   result, chunks, block, views, handler>>
    /\ UNCHANGED <<poolVars, lifecycleVars>>

\* Mutant: the header chunk is passed on as soon as it has been read.
FetchChunks_eager ==
    /\ pc = "streaming"
    /\ IsBlockFetch
    /\ log' = Append(log, Event("post_request_stream", name, preprocessed_request, 0))
    /\ LET n1 == UpstreamNext(upstream, 0)
           n2 == UpstreamNext(upstream, 1)
       IN  IF n1.kind = "elem" /\ n2.kind = "elem"
           THEN /\ chunks' = <<n1.elem, n2.elem>>
                /\ pulled' = 2
                /\ pc' = "fetched"
                /\ delivered' = <<n1.elem>>
                /\ UNCHANGED <<failure, channel>>
           ELSE /\ pulled' = IF n1.kind = "elem" THEN 1 ELSE 0
                /\ failure' = IF n1.kind = "RpcError" \/ n2.kind = "RpcError"
                              THEN "RpcError" ELSE "RuntimeError"
                /\ pc' = "failed"
                /\ channel' = "closed"
                /\ delivered' = IF n1.kind = "elem" THEN <<n1.elem>> ELSE <<>>
                /\ UNCHANGED chunks
    /\ UNCHANGED <<interceptor, name, request, upstream, preprocessed_request, response,
                   result, block, views, handler>>
    /\ UNCHANGED <<poolVars, lifecycleVars>>

\* chunk1 = next(response); chunk2 = next(response).  A response that ends
\* early raises StopIteration inside the generator, which leaves it as a
\* RuntimeError; a failed response raises RpcError.
FetchChunks ==
    /\ pc = "streaming"
    /\ IsBlockFetch
    /\ log' = Append(log, Event("post_request_stream", name, preprocessed_request, 0))
    /\ LET n1 == UpstreamNext(upstream, 0)
           n2 == UpstreamNext(upstream, 1)
       IN  IF n1.kind = "elem" /\ n2.kind = "elem"
           THEN /\ chunks' = <<n1.elem, n2.elem>>
                /\ pulled' = 2
                /\ pc' = "fetched"
                /\ UNCHANGED <<failure, channel>>
           ELSE /\ pulled' = IF n1.kind = "elem" THEN 1 ELSE 0
                /\ failure' = IF n1.kind = "RpcError" \/ n2.kind = "RpcError"
                              THEN "RpcError" ELSE "RuntimeError"
                /\ pc' = "failed"
                /\ channel' = "closed"
                /\ UNCHANGED chunks
    /\ UNCHANGED <<interceptor, name, request, upstream, preprocessed_request, response,
                   result, block, delivered, views, handler>>
    /\ UNCHANGED <<poolVars, lifecycleVars>>

\* uncompressed_block_data = lz4.block.decompress(chunk2.data, ...);
\* block.ParseFromString(uncompressed_block_data)
DecodeBlock ==
    /\ pc = "fetched"
    /\ LET d == lz4_decompress(chunks[2].data, chunks[1].header.original_content_length)
       IN  IF ~d.ok
           THEN /\ failure' = "LZ4BlockError"
                /\ pc' = "failed"
                /\ channel' = "closed"
                /\ UNCHANGED block
           ELSE IF ~ParseFromString(d.bytes).ok
           THEN /\ failure' = "DecodeError"
                /\ pc' = "failed"
                /\ channel' = "closed"
                /\ UNCHANGED block
           ELSE /\ block' = ParseFromString(d.bytes).block
                /\ pc' = "parsed"
                /\ UNCHANGED <<failure, channel>>
    /\ UNCHANGED <<interceptor, name, request, upstream, preprocessed_request, response,
                   result, pulled, chunks, delivered, log, views, handler>>
    /\ UNCHANGED <<poolVars, lifecycleVars>>

\* del block.body.deploys[0].deploy.approvals[:], then the new body_hash,
\* block_hash and signature.  deploys[0] of an empty body is an IndexError.
ResignBlock ==
    /\ pc = "parsed"
    /\ IF block.body.deploys = <<>>
       THEN /\ failure' = "IndexError"
            /\ pc' = "failed"
            /\ channel' = "closed"
            /\ UNCHANGED block
       ELSE /\ block' = Resign(RemoveApprovals(block))
            /\ pc' = "resigned"
            /\ UNCHANGED <<failure, channel>>
    /\ UNCHANGED <<interceptor, name, request, upstream, preprocessed_request, response,
                   result, pulled, chunks, delivered, log, views, handler>>
    /\ UNCHANGED <<poolVars, lifecycleVars>>

\* new_data, compressed_new_data, the chunks' new fields; yield chunk1
YieldChunk1 ==
    /\ pc = "resigned"
    /\ chunks' = Rechunk(chunks[1], chunks[2], block)
    /\ delivered' = Append(delivered, chunks'[1])
    /\ pc' = "yielded_chunk1"
    /\ UNCHANGED <<interceptor, name, request, upstream, channel, preprocessed_request,
                   response, result, pulled, block, log, failure, views, handler>>
    /\ UNCHANGED <<poolVars, lifecycleVars>>

\* yield chunk2
YieldChunk2 ==
    /\ pc = "yielded_chunk1"
    /\ delivered' = Append(delivered, chunks[2])
    /\ pc' = "yielded_chunk2"
    /\ UNCHANGED <<interceptor, name, request, upstream, channel, preprocessed_request,
                   response, result, pulled, chunks, block, log, failure, views, handler>>
    /\ UNCHANGED <<poolVars, lifecycleVars>>

\* Mutant: after the two chunks the rest of the response is passed on.
FetchReturn_drain ==
    /\ pc = "yielded_chunk2"
    /\ LET n == UpstreamNext(upstream, pulled)
       IN  IF n.kind = "elem"
           THEN /\ delivered' = Append(delivered, n.elem)
                /\ pulled' = pulled + 1
                /\ UNCHANGED <<pc, channel, failure>>
           ELSE /\ pc' = IF n.kind = "StopIteration" THEN "returned" ELSE "failed"
                /\ failure' = IF n.kind = "StopIteration" THEN "" ELSE "RpcError"
                /\ channel' = "closed"
                /\ UNCHANGED <<delivered, pulled>>
    /\ UNCHANGED <<interceptor, name, request, upstream, preprocessed_request, response,
                   result, chunks, block, log, views, handler>>
    /\ UNCHANGED <<poolVars, lifecycleVars>>

\* The branch has no statement after `yield chunk2`: the generator returns,
\* unary_stream returns and the with block closes the channel.
FetchReturn ==
    /\ pc = "yielded_chunk2"
    /\ pc' = "returned"
    /\ channel' = "closed"
    /\ UNCHANGED <<interceptor, name, request, upstream, preprocessed_request, response,
                   result, pulled, chunks, block, delivered, log, failure, views, handler>>
    /\ UNCHANGED <<poolVars, lifecycleVars>>

\* The generator is suspended at a yield.
Suspended == {"yielded", "yielded_chunk1", "yielded_chunk2"}

\* The caller stops consuming: the generator stays suspended at its yield.
Abandon ==
    /\ pc \in Suspended
    /\ pc' = "abandoned"
    /\ UNCHANGED <<interceptor, name, request, upstream, channel, preprocessed_request,
                   response, result, pulled, chunks, block, delivered, log, failure, views, handler>>
    /\ UNCHANGED <<poolVars, lifecycleVars>>

\* Mutant: the abandoned generator is dropped without its with block exiting.
Finalize_leak ==
    /\ pc = "abandoned"
    /\ pc' = "cancelled"
    /\ UNCHANGED <<interceptor, name, request, upstream, channel, preprocessed_request,
                   response, result, pulled, chunks, block, delivered, log, failure, views, handler>>
    /\ UNCHANGED <<poolVars, lifecycleVars>>

\* The abandoned generator is closed: GeneratorExit unwinds the with block.
Finalize ==
    /\ pc = "abandoned"
    /\ pc' = "cancelled"
    /\ channel' = "closed"
    /\ UNCHANGED <<interceptor, name, request, upstream, preprocessed_request, response,
                   result, pulled, chunks, block, delivered, log, failure, views, handler>>
    /\ UNCHANGED <<poolVars, lifecycleVars>>

\* The handler is over and its frame is gone: the worker is free again.
Release ==
    /\ pc \in Ended
    /\ pc' = "idle"
    /\ name' = <<>>
    /\ handler' = "none"
    /\ request' = NoRequest
    /\ upstream' = NoUpstream
    /\ channel' = "none"
    /\ preprocessed_request' = NoRequest
    /\ response' = 0
    /\ result' = 0
    /\ pulled' = 0
    /\ chunks' = <<>>
    /\ block' = EmptyBlock
    /\ delivered' = <<>>
    /\ log' = <<>>
    /\ failure' = ""
    /\ UNCHANGED <<interceptor, views>>
    /\ UNCHANGED <<poolVars, lifecycleVars>>

\* The steps the worker thread and the interpreter take by themselves.
HandlerStep ==
    \/ OpenChannel \/ PreRequest \/ Invoke \/ PostRequest \/ StreamStep
    \/ FetchChunks \/ DecodeBlock \/ ResignBlock \/ YieldChunk1 \/ YieldChunk2
    \/ FetchReturn \/ Finalize

Next ==
    \/ Receive
    \/ OpenChannel
    \/ PreRequest
    \/ Invoke
    \/ PostRequest
    \/ StreamStep
    \/ FetchChunks
    \/ DecodeBlock
    \/ ResignBlock
    \/ YieldChunk1
    \/ YieldChunk2
    \/ FetchReturn
    \/ Abandon
    \/ Finalize
    \/ Release

Spec == Init /\ [][Next]_vars

FairSpec == Spec /\ WF_vars(HandlerStep)

\* ------------------------------------------------- ProxyThread.service
\* next(self.servicer.service): the generator of ProxyServicer.service runs
\* to its yield inside the with block, and the harness gets the stub.  The
\* generator object itself is referenced by nobody.
ServiceGet ==
    /\ Len(views) < MaxViews
    /\ views' = Append(views, [generator |-> "suspended", channel |-> "open",
                               calls |-> <<>>])
    /\ UNCHANGED <<interceptor, pc, name, request, upstream, channel,
                   preprocessed_request, response, result, pulled, chunks, block, delivered,
                   log, failure, handler>>
    /\ UNCHANGED <<poolVars, lifecycleVars>>

\* The unreferenced generator is reclaimed (at once under reference
\* counting, at some later time under a tracing collector): GeneratorExit
\* is raised at its yield and the with block closes the channel.
CollectGenerator ==
    /\ \E i \in 1..Len(views) :
        /\ views[i].generator = "suspended"
        /\ views' = [views EXCEPT ![i].generator = "closed", ![i].channel = "closed"]
    /\ UNCHANGED <<interceptor, pc, name, request, upstream, channel,
                   preprocessed_request, response, result, pulled, chunks, block, delivered,
                   log, failure, handler>>
    /\ UNCHANGED <<poolVars, lifecycleVars>>

\* The harness calls a method of a stub it took: the call goes straight to
\* the stub's channel, and no interceptor hook is involved.
DirectCall ==
    /\ \E i \in 1..Len(views) :
        /\ Len(views[i].calls) < MaxDirectCalls
        /\ views' = [views EXCEPT ![i].calls =
                        Append(@, IF views[i].channel = "open"
                                  THEN "upstream" ELSE "closed_channel_error")]
    /\ UNCHANGED <<interceptor, pc, name, request, upstream, channel,
                   preprocessed_request, response, result, pulled, chunks, block, delivered,
                   log, failure, handler>>
    /\ UNCHANGED <<poolVars, lifecycleVars>>

NextService ==
    \/ ServiceGet
    \/ CollectGenerator
    \/ DirectCall

SpecService == Init /\ [][NextService]_vars

\* ------------------------------------------ ProxyServicer.__getattr__
\* Method names built from words with and without the two marks of a
\* streaming method, in every position.
Words ==
    {<<"S","t","r","e","a","m">>, <<"C","h","u","n","k","e","d">>, <<"G","e","t">>,
     <<"s","t","r","e","a","m">>, <<"s">>}

NamesOf[k \in Nat] ==
    IF k = 0 THEN {<<>>} ELSE {w \o n : w \in Words, n \in NamesOf[k - 1]}

ProbeNames == UNION {NamesOf[k] : k \in 1..MaxWords}

\* The server asks the servicer for the handler of a method: servicer.<name>
\* runs __getattr__(name), which returns one of its two closures.
GetAttr ==
    /\ pc = "idle"
    /\ \E n \in ProbeNames :
        /\ name' = n
        /\ handler' = getattr(n)
    /\ UNCHANGED <<interceptor, pc, request, upstream, channel, preprocessed_request,
                   response, result, pulled, chunks, block, delivered, log, failure,
                   views>>
    /\ UNCHANGED <<poolVars, lifecycleVars>>

NextDispatch == GetAttr

SpecDispatch == Init /\ [][NextDispatch]_vars

\* ------------------------------------------------ ProxyThread worker pool
\* futures.ThreadPoolExecutor(max_workers=1)
max_workers == 1

\* the calls of a Runtime a worker is handling
Handling(rt) == {c \in CallIds : stage[rt][c] \in {"taken", "pre_request", "upstream"}}

callVars ==
    <<interceptor, pc, name, request, upstream, channel, preprocessed_request,
      response, result, pulled, chunks, block, delivered, log, failure, views,
      handler>>

\* A client's call reaches the Runtime's server, which submits its handler
\* to the pool.
Submit(rt, c) ==
    /\ stage[rt][c] = "new"
    /\ stage' = [stage EXCEPT ![rt][c] = "queued"]
    /\ queue' = [queue EXCEPT ![rt] = Append(@, c)]
    /\ UNCHANGED <<trace, callVars, lifecycleVars>>

\* Mutant: a waiting call is taken up whatever the pool is doing.
WorkerTake_unbounded(rt) ==
    /\ queue[rt] # <<>>
    /\ stage' = [stage EXCEPT ![rt][Head(queue[rt])] = "taken"]
    /\ queue' = [queue EXCEPT ![rt] = Tail(@)]
    /\ UNCHANGED <<trace, callVars, lifecycleVars>>

\* A free worker of the Runtime's pool takes the call that waited longest.
WorkerTake(rt) ==
    /\ queue[rt] # <<>>
    /\ Cardinality(Handling(rt)) < max_workers
    /\ stage' = [stage EXCEPT ![rt][Head(queue[rt])] = "taken"]
    /\ queue' = [queue EXCEPT ![rt] = Tail(@)]
    /\ UNCHANGED <<trace, callVars, lifecycleVars>>

\* The worker runs the handler's next hook or upstream invocation
\* (unary_unary / unary_stream); after the post hook the call is done
\* and the worker is free.
HookStep(rt, c) ==
    /\ c \in Handling(rt)
    /\ LET hook == CASE stage[rt][c] = "taken" -> "pre_request"
                     [] stage[rt][c] = "pre_request" -> "upstream"
                     [] OTHER -> "post_request"
       IN  /\ trace' = [trace EXCEPT ![rt] = Append(@, [call |-> c, hook |-> hook])]
           /\ stage' = [stage EXCEPT ![rt][c] =
                            IF hook = "post_request" THEN "done" ELSE hook]
    /\ UNCHANGED <<queue, callVars, lifecycleVars>>

NextPool ==
    \/ \E rt \in Runtimes, c \in CallIds : Submit(rt, c)
    \/ \E rt \in Runtimes : WorkerTake(rt)
    \/ \E rt \in Runtimes, c \in CallIds : HookStep(rt, c)

SpecPool == Init /\ [][NextPool]_vars

\* ------------------------------------------------- ProxyThread lifecycle
\* The harness thread calls proxy_client / proxy_server / proxy_kademlia and
\* later stop(); ProxyThread.run executes in the thread that start() began.
\* The two threads share self.server without synchronisation, so every
\* interleaving of their steps is a behaviour.
Configs == [encrypted : BOOLEAN, client_files : BOOLEAN, server_files : BOOLEAN]

\* t = ProxyThread(...): with encrypted_connection the constructor reads the
\* client certificate (extract_common_name) and, in ProxyServicer.__init__,
\* the client certificate and key (read_binary); a file that cannot be read
\* raises in the harness thread and no ProxyThread exists.
Construct ==
    /\ harness = "idle"
    /\ \E cfg \in Configs :
        /\ config' = cfg
        /\ harness' = IF cfg.encrypted /\ ~cfg.client_files
                      THEN "construct_failed" ELSE "constructed"
    /\ UNCHANGED <<thread, server, listener, accepted, callVars, poolVars>>

\* t.start(); return t
Start ==
    /\ harness = "constructed"
    /\ harness' = "returned"
    /\ thread' = "run"
    /\ UNCHANGED <<config, server, listener, accepted, callVars, poolVars>>

\* self.server = grpc.server(futures.ThreadPoolExecutor(max_workers=1))
RunCreateServer ==
    /\ thread = "run"
    /\ thread' = "server_created"
    /\ server' = "created"
    /\ UNCHANGED <<config, harness, listener, accepted, callVars, poolVars>>

\* self.add_servicer_to_server(self.servicer, self.server)
RunAddServicer ==
    /\ thread = "server_created"
    /\ thread' = "servicer_added"
    /\ UNCHANGED <<config, harness, server, listener, accepted, callVars, poolVars>>

\* add_insecure_port, or add_secure_port with the server key and certificate
\* read here: a file that cannot be read raises in run, and the thread ends.
RunAddPort ==
    /\ thread = "servicer_added"
    /\ IF config.encrypted /\ ~config.server_files
       THEN /\ thread' = "died"
            /\ UNCHANGED listener
       ELSE /\ thread' = "port_added"
            /\ listener' = "bound"
    /\ UNCHANGED <<config, harness, server, accepted, callVars, poolVars>>

\* self.server.start().  A server that was handed a stop() before its start
\* either starts all the same or refuses to; the library decides.
RunStart ==
    /\ thread = "port_added"
    /\ \/ /\ server = "created"
          /\ server' = "started"
          /\ thread' = "finished"
       \/ /\ server = "stopped"
          /\ thread' = "died"
          /\ UNCHANGED server
    /\ UNCHANGED <<config, harness, listener, accepted, callVars, poolVars>>

\* stop(): self.server.stop(0).  Before run has assigned self.server the
\* attribute does not exist (AttributeError); on a server not yet started
\* the library either does nothing or marks it stopped.
Stop ==
    /\ harness = "returned"
    /\ \/ /\ server = "unset"
          /\ harness' = "stop_raised"
          /\ UNCHANGED server
       \/ /\ server = "created"
          /\ harness' = "stopped"
          /\ server' \in {"created", "stopped"}
       \/ /\ server \in {"started", "stopped"}
          /\ harness' = "stopped"
          /\ server' = "stopped"
    /\ UNCHANGED <<config, thread, listener, accepted, callVars, poolVars>>

\* The started server accepts a call on its bound port.
Accept ==
    /\ server = "started"
    /\ listener = "bound"
    /\ accepted < MaxAccepted
    /\ accepted' = accepted + 1
    /\ UNCHANGED <<config, harness, thread, server, listener, callVars, poolVars>>

NextLifecycle ==
    \/ Construct
    \/ Start
    \/ RunCreateServer
    \/ RunAddServicer
    \/ RunAddPort
    \/ RunStart
    \/ Stop
    \/ Accept

SpecLifecycle == Init /\ [][NextLifecycle]_vars

\* ================================================================ claims
\* The block a (header chunk, data chunk) pair carries: [ok, block].
DecodeChunks(chunk1, chunk2) ==
    LET d == lz4_decompress(chunk2.data, chunk1.header.original_content_length)
    IN  IF d.ok THEN ParseFromString(d.bytes) ELSE [ok |-> FALSE, block |-> EmptyBlock]

Hooks == [i \in 1..Len(log) |-> log[i].hook]

\* pre_request has returned for the call being handled
PreReturned == Len(log) >= 2 \/ pc = "pre_done"

\* the upstream response has two or more elements and the first two decode
UpstreamDecodes ==
    /\ Len(upstream.elems) >= 2
    /\ DecodeChunks(upstream.elems[1], upstream.elems[2]).ok

UpstreamHasDeploy ==
    DecodeChunks(upstream.elems[1], upstream.elems[2]).block.body.deploys # <<>>

\* C1 as stated: in a GetBlockChunked call through the GossipInterceptor whose
\* upstream response has two or more elements, the first two decoding
\* successfully, the interceptor has, when the call is over, pulled exactly
\* two elements and emitted exactly two.
C1_Original ==
    (IsBlockFetch /\ UpstreamDecodes /\ pc \in {"returned", "failed"})
        => (pulled = 2 /\ Len(delivered) = 2)

\* C1 amended: the same, for a decoded block that has at least one deploy:
\* never more than two elements are pulled or emitted, the call does not
\* fail, and when the generator has run to its end exactly two were pulled
\* and exactly two emitted: the first upstream chunk with its two lengths
\* rewritten, then the second upstream chunk with its payload replaced.
C1_ChunkInvariant ==
    (IsBlockFetch /\ UpstreamDecodes /\ UpstreamHasDeploy)
        => /\ pulled <= 2
           /\ Len(delivered) <= 2
           /\ pc # "failed"
           /\ pc = "returned" =>
                /\ pulled = 2
                /\ Len(delivered) = 2
                /\ delivered[1].data = upstream.elems[1].data
                /\ delivered[1].header.content_length = Len(delivered[2].data)
                /\ delivered[2].header = upstream.elems[2].header
                /\ DecodeChunks(delivered[1], delivered[2]).ok
                /\ DecodeChunks(delivered[1], delivered[2]).block.body.deploys[1]
                       .deploy.approvals = <<>>

\* A completed fetch from an upstream stream longer than two elements.
C1_Witness ==
    /\ IsBlockFetch /\ UpstreamDecodes /\ UpstreamHasDeploy
    /\ Len(upstream.elems) > 2
    /\ pc = "returned"
    /\ Len(delivered) = 2

\* C2: the block carried by the two chunks emitted for GetBlockChunked has
\* body_hash = digest(serialize(body)), block_hash = digest(serialize(header))
\* over the header that carries this body_hash, and as signature the
\* proxy key's ed25519 signature of this block_hash.
C2_Resigned ==
    (IsBlockFetch /\ Len(delivered) = 2)
        => LET d == DecodeChunks(delivered[1], delivered[2])
               b == d.block
           IN  /\ d.ok
               /\ b.header.body_hash = blake2b_hash(SerializeBody(b.body))
               /\ b.block_hash = blake2b_hash(SerializeHeader(b.header))
               /\ b.signature.sig_algorithm = "ed25519"
               /\ b.signature.sig = Sign(node_private_key, b.block_hash)

\* An emitted block whose body, so whose digests, differ from the upstream's.
C2_Witness ==
    /\ IsBlockFetch /\ Len(delivered) = 2
    /\ LET old == DecodeChunks(upstream.elems[1], upstream.elems[2]).block
           new == DecodeChunks(delivered[1], delivered[2]).block
       IN  /\ old.body.deploys[1].deploy.approvals # <<>>
           /\ new.header.body_hash # old.header.body_hash
           /\ new.block_hash # old.block_hash

\* C3: once KademliaInterceptor.pre_request has returned, the request it
\* returned has the sender's host and two ports equal to the registry entry
\* of the sender's identity, and its sender id and remaining field are those
\* of the request received.
C3_AddressRewrite ==
    (interceptor = "kademlia_interceptor" /\ PreReturned)
        => /\ request.sender.id \in DOMAIN Registry
           /\ LET node == Registry[request.sender.id]
                  sender == preprocessed_request.sender
              IN  /\ sender.host = node.proxy_host
                  /\ sender.protocol_port = node.server_proxy_port
                  /\ sender.discovery_port = node.kademlia_proxy_port
                  /\ sender.id = request.sender.id
           /\ preprocessed_request.rest = request.rest

C3_Witness ==
    /\ interceptor = "kademlia_interceptor"
    /\ pc = "pre_done"
    /\ request.sender.host = "node-2"
    /\ preprocessed_request.sender.host = "proxy-2"

\* C4: a call whose sender identity the registry does not know, through the
\* KademliaInterceptor or as NewBlocks through the GossipInterceptor, can only
\* end as a failure (KeyError, channel closed); the upstream operation is
\* never invoked for it, no post hook runs and nothing reaches the caller.
UnknownSender ==
    /\ pc # "idle"
    /\ request.sender.id \notin DOMAIN Registry
    /\ \/ interceptor = "kademlia_interceptor"
       \/ interceptor = "gossip_interceptor" /\ name = NewBlocks

C4_UnknownIdentityAborts ==
    UnknownSender
        => /\ pc \in {"received", "opened", "failed"}
           /\ \A i \in 1..Len(log) : log[i].hook = "pre_request"
           /\ result = 0
           /\ delivered = <<>>
           /\ pc = "failed" => (failure = "KeyError" /\ channel = "closed")

C4_Witness ==
    /\ UnknownSender
    /\ interceptor = "gossip_interceptor"
    /\ pc = "failed"
    /\ Hooks = <<"pre_request">>

\* C5: a unary call runs pre_request, the upstream operation and post_request
\* in this order, each at most once, and when it has returned each exactly
\* once: pre_request on the request received, the upstream operation on the
\* preprocessed request, post_request on the preprocessed request and the
\* upstream's response; what the caller gets is what post_request returned.
UnaryOrder(n) ==
    SubSeq(<<Event("pre_request", name, request, 0),
             Event("upstream", name, preprocessed_request, 0),
             Event("post_request", name, preprocessed_request, upstream.resp)>>, 1, n)

C5_UnaryOrder ==
    (pc # "idle" /\ ~is_unary_stream(name))
        => /\ Len(log) <= 3
           /\ log = UnaryOrder(Len(log))
           /\ pc = "returned" =>
                /\ Len(log) = 3
                /\ result = post_request(interceptor, name, preprocessed_request,
                                         upstream.resp)
                /\ result = upstream.resp

\* A returned unary call whose request the pre hook rewrote.
C5_Witness ==
    /\ pc = "returned"
    /\ ~is_unary_stream(name)
    /\ preprocessed_request # request
    /\ result = 2

\* number of times the upstream operation was invoked for the call
UpstreamCalls == Cardinality({i \in 1..Len(log) : log[i].hook = "upstream"})

\* the upstream fails the invocation: a unary call fails, a streaming call
\* fails before its first element
UpstreamUnreachable ==
    /\ pc # "idle"
    /\ upstream.fails
    /\ upstream.elems = <<>>

C6_Safe ==
    /\ UpstreamCalls <= 1
    /\ UpstreamUnreachable =>
        /\ result = 0
        /\ delivered = <<>>
        /\ \A i \in 1..Len(log) : log[i].hook # "post_request"
        /\ pc \in {"received", "opened", "pre_done", "streaming", "failed"}
        /\ (pc = "failed" /\ UpstreamCalls = 1) => (failure = "RpcError" /\ channel = "closed")

\* C6: the upstream operation is invoked at most once per call; a call whose
\* upstream is unreachable, once its pre hook has returned, ends as a failure
\* (RpcError): it is not attempted again, it does not stay pending, and no
\* post hook result reaches the caller.
C6_NoRetry ==
    /\ []C6_Safe
    /\ (UpstreamUnreachable /\ pc = "pre_done") ~> (pc = "failed" /\ failure = "RpcError")

\* A streaming call that failed on its unreachable upstream.
C6_Witness ==
    /\ UpstreamUnreachable
    /\ is_unary_stream(name)
    /\ pc = "failed"
    /\ failure = "RpcError"
    /\ UpstreamCalls = 1

\* C7: a call that is over (returned, failed, or abandoned by its caller and
\* its generator closed) has no open channel, and every channel that is open
\* is eventually closed.
C7_ChannelReleased ==
    /\ [](pc \in Ended \cup {"idle"} => channel # "open")
    /\ (channel = "open") ~> (channel = "closed")

\* A streaming call the caller abandoned part way, its channel closed.
C7_Witness ==
    /\ pc = "cancelled"
    /\ channel = "closed"
    /\ Len(delivered) >= 1
    /\ pulled < Len(upstream.elems)

\* C8 as stated: every call the harness issues on a direct client view finds
\* the view's channel open and reaches the upstream service.
C8_DirectViewOpen ==
    \A i \in 1..Len(views) :
        \A j \in 1..Len(views[i].calls) : views[i].calls[j] = "upstream"

\* C9: with the base Interceptor or the LoggingInterceptor the preprocessed
\* request is the request received, a unary call returns the upstream's
\* response, and a streaming call delivers the upstream's elements, each as
\* soon as it is pulled, in order, and all of them when it returns.
C9_Passthrough ==
    (interceptor \in {"interceptor", "logging_interceptor"} /\ pc # "idle")
        => /\ PreReturned => preprocessed_request = request
           /\ (pc = "returned" /\ ~is_unary_stream(name)) => result = upstream.resp
           /\ pulled = Len(delivered)
           /\ delivered = SubSeq(upstream.elems, 1, Len(delivered))
           /\ (pc = "returned" /\ is_unary_stream(name)) => delivered = upstream.elems

\* A GetBlockChunked stream passed through the LoggingInterceptor untouched.
C9_Witness ==
    /\ interceptor = "logging_interceptor"
    /\ name = GetBlockChunked
    /\ pc = "returned"
    /\ Len(delivered) >= 2
    /\ delivered = upstream.elems

\* the exception a GetBlockChunked call must end with, by what the upstream
\* served
FetchFailure ==
    IF Len(upstream.elems) < 2
    THEN IF upstream.fails THEN "RpcError" ELSE "RuntimeError"
    ELSE IF ~lz4_decompress(upstream.elems[2].data,
                            upstream.elems[1].header.original_content_length).ok
    THEN "LZ4BlockError"
    ELSE IF ~UpstreamDecodes THEN "DecodeError"
    ELSE "IndexError"

\* C10: a GetBlockChunked call through the GossipInterceptor whose upstream
\* yields fewer than two elements, or a payload that does not decompress or
\* does not parse, or a block without deploys, delivers no chunk at any time
\* and can only end as a failure, with the exception of the failing step; and
\* no failed GetBlockChunked call has delivered a chunk.
C10_NoPartialEmission ==
    /\ (IsBlockFetch /\ pc = "failed") => delivered = <<>>
    /\ (IsBlockFetch /\ pc # "idle" /\ ~(UpstreamDecodes /\ UpstreamHasDeploy))
        => /\ delivered = <<>>
           /\ pc \in {"received", "opened", "pre_done", "streaming", "fetched", "parsed",
                     "failed"}
           /\ pc = "failed" => (channel = "closed" /\ failure = FetchFailure)

\* A fetch of a block without deploys, failed with nothing delivered.
C10_Witness ==
    /\ IsBlockFetch
    /\ pc = "failed"
    /\ failure = "IndexError"
    /\ pulled = 2
    /\ delivered = <<>>

\* a streamed peer with its host and ports replaced by the registry's proxy
\* coordinates for the peer's own identity
ProxyCoordinates(r) ==
    [id |-> r.id,
     host |-> Registry[r.id].proxy_host,
     protocol_port |-> Registry[r.id].server_proxy_port,
     discovery_port |-> Registry[r.id].kademlia_proxy_port]

\* a streaming call through the KademliaInterceptor is being handled
KademliaStream ==
    interceptor = "kademlia_interceptor" /\ pc # "idle" /\ is_unary_stream(name)

\* positions of the upstream elements whose identity the registry lacks
UnknownPositions ==
    {i \in 1..Len(upstream.elems) : upstream.elems[i].id \notin DOMAIN Registry}

\* the position k of the first such element
FirstUnknown == CHOOSE k \in UnknownPositions : \A j \in UnknownPositions : k <= j

\* C11: in a streaming call through the KademliaInterceptor whose upstream
\* has its first unknown identity at position k, at every moment only
\* elements before k have been delivered, each patched and in order, never
\* more than k are pulled, and the call cannot return: when the interceptor
\* has failed (KeyError) exactly k were pulled, exactly the first k-1 have
\* been delivered and the channel is closed.
C11_MidStreamFailure ==
    (KademliaStream /\ UnknownPositions # {})
        => /\ Len(delivered) <= FirstUnknown - 1
           /\ pulled <= FirstUnknown
           /\ \A i \in 1..Len(delivered) : delivered[i] = ProxyCoordinates(upstream.elems[i])
           /\ pc # "returned"
           /\ (pc = "failed" /\ failure = "KeyError" /\ Len(log) = 3)
                => /\ pulled = FirstUnknown
                   /\ Len(delivered) = FirstUnknown - 1
                   /\ channel = "closed"

\* A stream that failed on its third element after two were delivered.
C11_Witness ==
    /\ KademliaStream
    /\ pc = "failed"
    /\ failure = "KeyError"
    /\ Len(delivered) = 2
    /\ pulled = 3
    /\ UnknownPositions # {}

\* a streaming call of an operation other than GetBlockChunked is being
\* handled
OtherStream == pc # "idle" /\ is_unary_stream(name) /\ name # GetBlockChunked

\* what the bound interceptor emits for the upstream element r
Emitted(r) == IF interceptor = "kademlia_interceptor" THEN ProxyCoordinates(r) ELSE r

C12_Bounded ==
    OtherStream
        => /\ Len(delivered) <= pulled
           /\ pulled <= Len(delivered) + 1
           /\ pc \in Suspended \cup {"returned", "abandoned", "cancelled"}
                => pulled = Len(delivered)
           /\ \A i \in 1..Len(delivered) : delivered[i] = Emitted(upstream.elems[i])

C12_OnePull ==
    (OtherStream /\ pulled' # pulled /\ pc' # "idle")
        => /\ pc \in {"streaming", "yielded"}
           /\ pulled' = pulled + 1
           /\ \/ pc' = "failed"
              \/ pc' = "yielded" /\ Len(delivered') = Len(delivered) + 1

\* C12: in a streaming call of an operation other than GetBlockChunked the
\* elements pulled from upstream never outnumber the elements delivered by
\* more than one, and not at all while the generator waits at a yield; the
\* i-th delivered element is what the interceptor emits for the i-th
\* upstream element; and a step pulls at most one element, which it either
\* delivers or fails on.
C12_LazyStreaming == []C12_Bounded /\ [][C12_OnePull]_vars

\* A stream suspended after two deliveries, a third element not yet pulled.
C12_Witness ==
    /\ OtherStream
    /\ interceptor = "gossip_interceptor"
    /\ pc = "yielded"
    /\ pulled = 2
    /\ Len(delivered) = 2
    /\ Len(upstream.elems) = 3

\* C13: a returned streaming call has delivered as many elements as the
\* upstream served, in arrival order: through the GossipInterceptor, for an
\* operation other than GetBlockChunked, the upstream elements themselves;
\* through the KademliaInterceptor every identity resolved and each element
\* carries its own identity, the registry's proxy host and proxy ports for
\* it.  A call whose upstream ends normally and, through the
\* KademliaInterceptor, names only known identities does not fail once its
\* pre hook has returned.
C13_LengthAndOrder ==
    /\ (OtherStream /\ pc = "returned" /\ interceptor = "gossip_interceptor")
        => delivered = upstream.elems
    /\ (KademliaStream /\ pc = "returned")
        => /\ UnknownPositions = {}
           /\ Len(delivered) = Len(upstream.elems)
           /\ \A i \in 1..Len(upstream.elems) :
                /\ delivered[i].id = upstream.elems[i].id
                /\ delivered[i].host = Registry[upstream.elems[i].id].proxy_host
                /\ delivered[i].protocol_port =
                       Registry[upstream.elems[i].id].server_proxy_port
                /\ delivered[i].discovery_port =
                       Registry[upstream.elems[i].id].kademlia_proxy_port
    /\ (OtherStream /\ interceptor \in {"gossip_interceptor", "kademlia_interceptor"}
            /\ ~upstream.fails /\ PreReturned
            /\ (interceptor = "kademlia_interceptor" => UnknownPositions = {}))
        => pc # "failed"

\* A returned discovery stream of three peers, each delivered patched.
C13_Witness ==
    /\ KademliaStream
    /\ pc = "returned"
    /\ Len(delivered) = 3
    /\ delivered[3].host = "proxy-2"
    /\ upstream.elems[3].host = "node-2"

\* a call through the GossipInterceptor is being handled
GossipCall == interceptor = "gossip_interceptor" /\ pc # "idle"

\* C14: through the GossipInterceptor, the preprocessed request of a
\* NewBlocks call differs from the request received in the sender's host
\* and two ports only, which are the registry's for the sender's identity;
\* for every other operation name the preprocessed request is the request
\* received, and the call never fails in its pre hook, whether or not the
\* registry knows the sender.
C14_GossipPreFrame ==
    /\ (GossipCall /\ PreReturned /\ name = NewBlocks)
        => /\ preprocessed_request.rest = request.rest
           /\ preprocessed_request.sender.id = request.sender.id
           /\ preprocessed_request =
                [request EXCEPT !.sender = ProxyCoordinates(request.sender)]
    /\ (GossipCall /\ PreReturned /\ name # NewBlocks)
        => preprocessed_request = request
    /\ (GossipCall /\ name # NewBlocks /\ pc = "failed")
        => (Len(log) >= 2 /\ failure # "KeyError")
    /\ (GossipCall /\ name # NewBlocks /\ Len(log) >= 1 /\ pc # "failed")
        => PreReturned

\* A unary call other than NewBlocks from a sender the registry does not
\* know, returned with its request untouched.
C14_Witness ==
    /\ GossipCall
    /\ name = Ping
    /\ request.sender.id = UnknownId
    /\ pc = "returned"
    /\ preprocessed_request = request
    /\ Len(log) = 3

\* the block the upstream served and the block the caller was delivered
UpstreamBody == DecodeChunks(upstream.elems[1], upstream.elems[2]).block.body
DeliveredBody == DecodeChunks(delivered[1], delivered[2]).block.body

\* C15: the body of the block delivered for GetBlockChunked has the deploys
\* of the upstream's body, as many and in the same order: the first with no
\* approvals and otherwise as served, every later one exactly as served;
\* and so has the generator's block once it has been mutated.
C15_MutationScope ==
    /\ (IsBlockFetch /\ Len(delivered) = 2)
        => /\ Len(DeliveredBody.deploys) = Len(UpstreamBody.deploys)
           /\ DeliveredBody.deploys[1].deploy.approvals = <<>>
           /\ DeliveredBody.deploys[1] =
                [UpstreamBody.deploys[1] EXCEPT !.deploy.approvals = <<>>]
           /\ \A i \in 2..Len(UpstreamBody.deploys) :
                DeliveredBody.deploys[i] = UpstreamBody.deploys[i]
    /\ (IsBlockFetch /\ pc = "resigned")
        => block.body =
             [UpstreamBody EXCEPT !.deploys[1].deploy.approvals = <<>>]

\* A delivered block of two deploys, the second still with its approvals and
\* the first stripped of the ones it had.
C15_Witness ==
    /\ IsBlockFetch
    /\ Len(delivered) = 2
    /\ Len(DeliveredBody.deploys) = 2
    /\ UpstreamBody.deploys[1].deploy.approvals # <<>>
    /\ Len(DeliveredBody.deploys[2].deploy.approvals) = 2

\* C16: of the two chunks delivered for GetBlockChunked, the header's
\* content_length is the length of the data chunk's payload, its
\* original_content_length is the length of the serialized mutated block,
\* and the payload decompressed with that original_content_length is the
\* serialized mutated block; the header chunk already carries the two
\* lengths when it is delivered, before the data chunk.
C16_HeaderPayloadConsistent ==
    /\ (IsBlockFetch /\ Len(delivered) >= 1)
        => /\ delivered[1].header.content_length = Len(chunks[2].data)
           /\ delivered[1].header.original_content_length = Len(SerializeBlock(block))
    /\ (IsBlockFetch /\ Len(delivered) = 2)
        => /\ delivered[2].data = chunks[2].data
           /\ delivered[1].header.content_length = Len(delivered[2].data)
           /\ lz4_decompress(delivered[2].data,
                             delivered[1].header.original_content_length)
                = [ok |-> TRUE, bytes |-> SerializeBlock(block)]

\* Two delivered chunks whose lengths are not the upstream's.
C16_Witness ==
    /\ IsBlockFetch
    /\ Len(delivered) = 2
    /\ delivered[1].header.original_content_length
         < upstream.elems[1].header.original_content_length
    /\ delivered[1].header.content_length # upstream.elems[1].header.content_length
    /\ delivered[1].header.content_length = Len(delivered[2].data)

\* the method name begins with the six letters of Stream
BeginsWithStream ==
    /\ Len(name) >= 6
    /\ <<name[1], name[2], name[3], name[4], name[5], name[6]>>
         = <<"S","t","r","e","a","m">>

\* the method name ends with the seven letters of Chunked
EndsWithChunked ==
    /\ Len(name) >= 7
    /\ [i \in 1..7 |-> name[Len(name) - 7 + i]] = <<"C","h","u","n","k","e","d">>

\* C17: the handler __getattr__ returns for a method name is unary_stream
\* when the name begins with Stream or ends with Chunked and unary_unary in
\* every other case: always one of the two, and determined by the name.
C17_Dispatch ==
    handler # "none"
        => /\ handler \in {"unary_stream", "unary_unary"}
           /\ handler = "unary_stream" <=> (BeginsWithStream \/ EndsWithChunked)

\* A name with both words inside it, neither where it counts: unary.
C17_Witness ==
    /\ handler = "unary_unary"
    /\ name = <<"s">> \o <<"C","h","u","n","k","e","d">> \o <<"S","t","r","e","a","m">>

\* C18: a Runtime's pool handles at most one call at any moment, and the
\* hook invocations of a Runtime form one block per call: between two
\* invocations for the same call there is none for another call.
C18_Serialized ==
    \A rt \in Runtimes :
        /\ Cardinality(Handling(rt)) <= 1
        /\ \A i, j, k \in 1..Len(trace[rt]) :
            (i < j /\ j < k /\ trace[rt][i].call = trace[rt][k].call)
                => trace[rt][j].call = trace[rt][i].call

\* Both Runtimes in the middle of a call at once, while a second call to
\* one of them waits for that Runtime's worker.
C18_Witness ==
    /\ stage["proxy_server"][1] = "pre_request"
    /\ stage["proxy_kademlia"][1] = "upstream"
    /\ queue["proxy_server"] = <<2>>
    /\ Len(trace["proxy_server"]) = 1
    /\ Len(trace["proxy_kademlia"]) = 2

\* C19 as stated: once the Runtime has been returned to the harness, a
\* stop() does not fail for want of a server, and after it has returned the
\* server is stopped: it is not accepting and does not start accepting.
C19_StopStops ==
    /\ harness # "stop_raised"
    /\ harness = "stopped" => server = "stopped"

\* credential files of an encrypted Runtime are missing or unreadable
CredentialsMissing ==
    /\ harness # "idle"
    /\ config.encrypted
    /\ ~(config.client_files /\ config.server_files)

\* C20 as stated: starting an encrypted Runtime whose credential files are
\* missing fails, so that the Runtime is never returned to the harness, and
\* the Runtime never has a server object or a bound port.
C20_NoPartialStartup ==
    CredentialsMissing
        => /\ harness \notin {"returned", "stopped", "stop_raised"}
           /\ server = "unset"
           /\ listener = "none"

====
